---- MODULE Spec2Model ----
(***************************************************************************)
(* Sequence execution engine of gt-space/common (src/sequence):            *)
(* run(), the Sensor and Valve handles, wait_for / wait_until, the         *)
(* process-wide MAPPINGS / SAM_SOCKET / DEVICE_HANDLER / VEHICLE_STATE     *)
(* statics, the Mapping Table mutex and the Python interpreter lock.       *)
(*                                                                         *)
(* Option<T> values are written <<>> (None) and <<x>> (Some(x)).           *)
(***************************************************************************)
EXTENDS Integers, Sequences, FiniteSets, TLC

\* ------------------------------------------------------------------ bounds

\* Longest script, counted in handle calls and wait calls.
MaxStmts == 2

\* Largest finite wait_until timeout, counted in poll intervals.
MaxTimeout == 2

\* ------------------------------------------------------------- data model

Threads == {"t1", "t2"}

Arcs == {"m1", "m2"}

Handlers == {"h1"}

SequenceNames == {"abort", "seq1"}

Names == {"vlv1", "sen1"}

Readings == {1, 2}

ValveStates == {"Open", "Closed"}

Timestamps == {1}

NodeMapping(text_id, board_id, channel_type, channel, normally_closed) ==
  [text_id |-> text_id, board_id |-> board_id, channel_type |-> channel_type,
   channel |-> channel, normally_closed |-> normally_closed]

TableA ==
  << NodeMapping("vlv1", "sam1", "ValveCurrent", 3, <<TRUE>>),
     NodeMapping("sen1", "sam1", "CurrentLoop", 1, <<>>) >>

TableB ==
  << NodeMapping("vlv1", "sam2", "ValveCurrent", 5, <<FALSE>>) >>

TableC ==
  << NodeMapping("sen1", "sam1", "CurrentLoop", 1, <<>>),
     NodeMapping("vlv1", "sam1", "ValveCurrent", 3, <<>>) >>

TableD ==
  << NodeMapping("sen1", "sam2", "CurrentLoop", 2, <<>>) >>

\* A valve listed once per channel it has: two entries, one text_id.
TableE ==
  << NodeMapping("vlv1", "sam1", "ValveCurrent", 3, <<TRUE>>),
     NodeMapping("vlv1", "sam1", "ValveVoltage", 3, <<>>) >>

Tables == {TableA, TableB, TableC, TableD}

\* The tables of the two-thread specification.
ConcTables == {TableA, TableB, TableD, TableE}

NewVehicleState ==
  [valve_states    |-> [n \in Names |-> <<>>],
   sensor_readings |-> [n \in Names |-> <<>>],
   update_times    |-> [n \in Names |-> <<>>]]

SamControlMessage(channel, powered) ==
  [kind |-> "ActuateValve", channel |-> channel, powered |-> powered]

\* ------------------------------------------------------------------ state

VARIABLES
  MAPPINGS,        \* "unset", or the Arc that initialize() installed
  mappings,        \* contents of the Vec<NodeMapping> behind the installed Arc
  mapHolder,       \* thread holding the Mapping Table mutex, or "none"
  mapPoisoned,     \* the Mapping Table mutex is poisoned
  gil,             \* thread holding the interpreter lock, or "none"
  SAM_SOCKET,      \* "unset" or "bound"
  DEVICE_HANDLER,  \* "None" or the installed handler
  VEHICLE_STATE,   \* <<>> (unset) or <<VehicleState>>
  globals,         \* the interpreter's __main__ namespace: name -> class bound
  pc,              \* per thread: position in run() / in the script
  seq,             \* per thread: name of the Sequence given to run()
  runState,        \* per thread: NotStarted, Binding, Running, Completed, Failed, Aborted
  ret,             \* per thread: what run() returned to its caller
  stmts,           \* per thread: statements the script has started
  call,            \* per thread: the handle call in progress or last finished
  wu               \* per thread: wait_until's deadline and the time elapsed

vars == << MAPPINGS, mappings, mapHolder, mapPoisoned, gil, SAM_SOCKET,
           DEVICE_HANDLER, VEHICLE_STATE, globals, pc, seq, runState, ret,
           stmts, call, wu >>

envVars == << MAPPINGS, mappings, SAM_SOCKET, DEVICE_HANDLER, VEHICLE_STATE >>

NoCall ==
  [op |-> "none", name |-> "", open |-> FALSE, done |-> FALSE,
   outcome |-> "none", value |-> <<>>, msgs |-> <<>>, via |-> "none",
   handler |-> "None", known |-> FALSE, nc |-> <<>>, idx |-> 0,
   message |-> <<>>, cmp |-> "none", other |-> 0]

NoWait == [end |-> 0, now |-> 0]

Init ==
  /\ MAPPINGS = "unset"
  /\ mappings = <<>>
  /\ mapHolder = "none"
  /\ mapPoisoned = FALSE
  /\ gil = "none"
  /\ SAM_SOCKET = "unset"
  /\ DEVICE_HANDLER = "None"
  /\ VEHICLE_STATE = <<>>
  /\ globals = [n \in Names |-> "undef"]
  /\ pc = [t \in Threads |-> "idle"]
  /\ seq = [t \in Threads |-> "none"]
  /\ runState = [t \in Threads |-> "NotStarted"]
  /\ ret = [t \in Threads |-> "none"]
  /\ stmts = [t \in Threads |-> 0]
  /\ call = [t \in Threads |-> NoCall]
  /\ wu = [t \in Threads |-> NoWait]

\* ---------------------------------------------- library and embedder calls

\* A cell that takes every value it is given.
OnceLock_set_Overwriting(cell, value) == value

\* OnceLock::set: the value is stored only in an empty cell.
OnceLock_set(cell, value) == IF cell = "unset" THEN value ELSE cell

\* initialize(mappings): MAPPINGS.set(mappings); a second call is ignored.
\* `mappings` is the Vec behind the Arc that MAPPINGS holds.
initialize(a, tbl) ==
  /\ MAPPINGS' = OnceLock_set(MAPPINGS, a)
  /\ mappings' = IF MAPPINGS' # MAPPINGS THEN tbl ELSE mappings
  /\ UNCHANGED << mapHolder, mapPoisoned, gil, SAM_SOCKET, DEVICE_HANDLER,
                  VEHICLE_STATE, globals, pc, seq, runState, ret, stmts,
                  call, wu >>

\* set_device_handler(handler): *device_handler = Some(Box::new(handler)).
set_device_handler(h) ==
  /\ DEVICE_HANDLER' = h
  /\ UNCHANGED << MAPPINGS, mappings, mapHolder, mapPoisoned, gil, SAM_SOCKET,
                  VEHICLE_STATE, globals, pc, seq, runState, ret, stmts,
                  call, wu >>

\* The owner of the Arc<Mutex<Vec<NodeMapping>>> replaces the Vec under the
\* mutex (FlightControlMessage::Mappings, "applied immediately").
SetMappings(tbl) ==
  /\ MAPPINGS # "unset"
  /\ mapHolder = "none"
  /\ ~mapPoisoned
  /\ mappings # tbl
  /\ mappings' = tbl
  /\ UNCHANGED << MAPPINGS, mapHolder, mapPoisoned, gil, SAM_SOCKET,
                  DEVICE_HANDLER, VEHICLE_STATE, globals, pc, seq, runState,
                  ret, stmts, call, wu >>

\* VEHICLE_STATE is set once to a shared VehicleState::new().
InitVehicleState ==
  /\ VEHICLE_STATE = <<>>
  /\ VEHICLE_STATE' = << NewVehicleState >>
  /\ UNCHANGED << MAPPINGS, mappings, mapHolder, mapPoisoned, gil, SAM_SOCKET,
                  DEVICE_HANDLER, globals, pc, seq, runState, ret, stmts,
                  call, wu >>

\* Telemetry: the listener stores a sensor reading and its update time.
UpdateSensor(n, m, ts) ==
  /\ VEHICLE_STATE # <<>>
  /\ VEHICLE_STATE[1].valve_states[n] = <<>>
  /\ VEHICLE_STATE[1].sensor_readings[n] # <<m>>
  /\ VEHICLE_STATE' =
       << [VEHICLE_STATE[1] EXCEPT !.sensor_readings[n] = <<m>>,
                                   !.update_times[n] = <<ts>>] >>
  /\ UNCHANGED << MAPPINGS, mappings, mapHolder, mapPoisoned, gil, SAM_SOCKET,
                  DEVICE_HANDLER, globals, pc, seq, runState, ret, stmts,
                  call, wu >>

\* Acknowledgment: the listener stores a valve state and its update time.
UpdateValve(n, v, ts) ==
  /\ VEHICLE_STATE # <<>>
  /\ VEHICLE_STATE[1].sensor_readings[n] = <<>>
  /\ VEHICLE_STATE[1].valve_states[n] # <<v>>
  /\ VEHICLE_STATE' =
       << [VEHICLE_STATE[1] EXCEPT !.valve_states[n] = <<v>>,
                                   !.update_times[n] = <<ts>>] >>
  /\ UNCHANGED << MAPPINGS, mappings, mapHolder, mapPoisoned, gil, SAM_SOCKET,
                  DEVICE_HANDLER, globals, pc, seq, runState, ret, stmts,
                  call, wu >>

\* ------------------------------------------------------------------ run()

\* The class run() binds for a mapping: Valve for ValveCurrent, else Sensor.
HandleClass(mapping) ==
  IF mapping.channel_type = "ValveCurrent" THEN "Valve" ELSE "Sensor"

\* py.run("<text_id> = <Class>('<text_id>')") succeeds when text_id is a
\* Python identifier.
IsIdentifier(text_id) == text_id \in {"vlv1", "sen1"}

\* The `for mapping in &*mappings` loop from index i on, over namespace g:
\* stops at the first definition that fails, keeping the earlier ones.
RECURSIVE BindFrom(_, _, _)
BindFrom(tbl, i, g) ==
  IF i > Len(tbl) THEN [ok |-> TRUE, globals |-> g]
  ELSE IF ~IsIdentifier(tbl[i].text_id) THEN [ok |-> FALSE, globals |-> g]
  ELSE BindFrom(tbl, i + 1, [g EXCEPT ![tbl[i].text_id] = HandleClass(tbl[i])])

\* A run() that keeps its guard on the Mapping Table while the script runs.
DropGuard_Forgotten(holder) == holder

\* drop(mappings): the holder of the Mapping Table mutex once run() has
\* dropped its guard.
DropGuard(holder) == "none"

\* run(sequence): MAPPINGS.get()
Run(t, name) ==
  /\ pc[t] = "idle"
  /\ seq' = [seq EXCEPT ![t] = name]
  /\ IF MAPPINGS = "unset"
       THEN /\ pc' = [pc EXCEPT ![t] = "returned"]
            /\ runState' = [runState EXCEPT ![t] = "Aborted"]
            /\ ret' = [ret EXCEPT ![t] = "unit"]
       ELSE /\ pc' = [pc EXCEPT ![t] = "run_lock"]
            /\ UNCHANGED << runState, ret >>
  /\ UNCHANGED << envVars, mapHolder, mapPoisoned, gil, globals, stmts, call, wu >>

\* run(): mappings.lock()
RunLock(t) ==
  /\ pc[t] = "run_lock"
  /\ mapHolder = "none"
  /\ IF mapPoisoned
       THEN /\ pc' = [pc EXCEPT ![t] = "returned"]
            /\ runState' = [runState EXCEPT ![t] = "Aborted"]
            /\ ret' = [ret EXCEPT ![t] = "unit"]
            /\ UNCHANGED mapHolder
       ELSE /\ mapHolder' = t
            /\ pc' = [pc EXCEPT ![t] = "run_gil"]
            /\ UNCHANGED << runState, ret >>
  /\ UNCHANGED << envVars, mapPoisoned, gil, globals, seq, stmts, call, wu >>

\* run(): Python::with_gil
RunGil(t) ==
  /\ pc[t] = "run_gil"
  /\ gil = "none"
  /\ gil' = t
  /\ pc' = [pc EXCEPT ![t] = "run_bind"]
  /\ runState' = [runState EXCEPT ![t] = "Binding"]
  /\ UNCHANGED << envVars, mapHolder, mapPoisoned, globals, seq, ret, stmts,
                  call, wu >>

\* run(): the import, the bindings, drop(mappings), and the start of the script.
RunBind(t) ==
  /\ pc[t] = "run_bind"
  /\ \E importOk \in BOOLEAN :
       LET b == BindFrom(mappings, 1, globals) IN
       IF ~importOk
         THEN /\ pc' = [pc EXCEPT ![t] = "returned"]
              /\ runState' = [runState EXCEPT ![t] = "Aborted"]
              /\ ret' = [ret EXCEPT ![t] = "unit"]
              /\ UNCHANGED globals
         ELSE /\ globals' = b.globals
              /\ IF b.ok
                   THEN /\ pc' = [pc EXCEPT ![t] = "script"]
                        /\ runState' = [runState EXCEPT ![t] = "Running"]
                        /\ UNCHANGED ret
                   ELSE /\ pc' = [pc EXCEPT ![t] = "returned"]
                        /\ runState' = [runState EXCEPT ![t] = "Aborted"]
                        /\ ret' = [ret EXCEPT ![t] = "unit"]
  /\ mapHolder' = IF pc'[t] = "script" THEN DropGuard(mapHolder) ELSE "none"
  /\ gil' = "none"
  /\ UNCHANGED << envVars, mapPoisoned, seq, stmts, call, wu >>

\* -------------------------------------------------------- script helpers

\* A script statement starts: the interpreter lock is free and taken for the
\* statement, and the script has statements left.
CanStart(t) ==
  /\ pc[t] = "script"
  /\ gil = "none"
  /\ stmts[t] < MaxStmts

\* An exception leaves the script: py.run returns Err, run() logs and returns.
ScriptFails(t) ==
  /\ pc' = [pc EXCEPT ![t] = "returned"]
  /\ runState' = [runState EXCEPT ![t] = "Failed"]
  /\ ret' = [ret EXCEPT ![t] = "unit"]

\* Whether some entry of tbl carries the name.
HasEntry(tbl, name) == \E i \in DOMAIN tbl : tbl[i].text_id = name

\* ------------------------------------------------------------ Sensor::read

\* A read that indexes the wrong map of the store.
Sensor_read_UpdateTimes(name) ==
  IF VEHICLE_STATE # <<>>
    THEN [outcome |-> "ok", value |-> VEHICLE_STATE[1].update_times[name]]
    ELSE [outcome |-> "ok", value |-> <<>>]

\* A read that resolves the name through the Mapping Table first.
Sensor_read_Resolving(name) ==
  IF MAPPINGS # "unset" /\ HasEntry(mappings, name)
    THEN [outcome |-> "ok",
          value |-> IF VEHICLE_STATE # <<>>
                      THEN VEHICLE_STATE[1].sensor_readings[name] ELSE <<>>]
    ELSE [outcome |-> "unknown_device", value |-> <<>>]

\* A read that insists on an initialized store.
Sensor_read_Expect(name) ==
  IF VEHICLE_STATE # <<>>
    THEN [outcome |-> "ok", value |-> VEHICLE_STATE[1].sensor_readings[name]]
    ELSE [outcome |-> "panic", value |-> <<>>]

\* Sensor::read: the reading stored under the name, None when VEHICLE_STATE
\* is unset or holds no reading under that name.
Sensor_read(name) ==
  IF VEHICLE_STATE # <<>>
    THEN [outcome |-> "ok", value |-> VEHICLE_STATE[1].sensor_readings[name]]
    ELSE [outcome |-> "ok", value |-> <<>>]

\* `name.read()` in a script, name bound to a Sensor.
StmtRead(t, n) ==
  /\ CanStart(t)
  /\ globals[n] = "Sensor"
  /\ LET r == Sensor_read(n) IN
     call' = [call EXCEPT ![t] =
                [NoCall EXCEPT !.op = "read", !.name = n, !.done = TRUE,
                               !.outcome = r.outcome, !.value = r.value,
                               !.via = "default", !.handler = DEVICE_HANDLER,
                               !.known = (MAPPINGS # "unset" /\ HasEntry(mappings, n))]]
  /\ stmts' = [stmts EXCEPT ![t] = @ + 1]
  /\ UNCHANGED << envVars, mapHolder, mapPoisoned, gil, globals, pc, seq,
                  runState, ret, wu >>

\* ------------------------------------------------------ Sensor::__richcmp__

\* pyo3's CompareOp.
CompareOps == {"Lt", "Le", "Eq", "Ne", "Gt", "Ge"}

\* The numbers a script compares a sensor with.
Others == {1, 2}

\* a.rich_compare(b, op) for a number a and b a reading or None: Python
\* orders numbers, finds None equal to no number and raises TypeError when
\* asked to order a number and None.
RichCompare(a, b, op) ==
  IF b = <<>>
    THEN CASE op = "Eq" -> "false"
           [] op = "Ne" -> "true"
           [] OTHER -> "error"
    ELSE LET holds == CASE op = "Lt" -> a < b[1]
                        [] op = "Le" -> a <= b[1]
                        [] op = "Eq" -> a = b[1]
                        [] op = "Ne" -> a # b[1]
                        [] op = "Gt" -> a > b[1]
                        [] op = "Ge" -> a >= b[1]
         IN IF holds THEN "true" ELSE "false"

\* A handle that keeps the value of its previous read or comparison.
Compared_Cached(t, name) ==
  IF call[t].op \in {"read", "compare"} /\ call[t].name = name
    THEN call[t].value
    ELSE Sensor_read(name).value

\* The value a comparison on the handle gets: self.read().
Compared(t, name) == Sensor_read(name).value

\* `name <op> other` in a script, name bound to a Sensor: __richcmp__ gives
\* other.rich_compare(self.read(), op); an exception leaves the script.
StmtCompare(t, n, op, other) ==
  /\ CanStart(t)
  /\ globals[n] = "Sensor"
  /\ LET v == Compared(t, n)
         res == RichCompare(other, v, op) IN
     /\ call' = [call EXCEPT ![t] =
                   [NoCall EXCEPT !.op = "compare", !.name = n, !.done = TRUE,
                                  !.outcome = res, !.value = v,
                                  !.cmp = op, !.other = other]]
     /\ IF res = "error"
          THEN ScriptFails(t)
          ELSE UNCHANGED << pc, runState, ret >>
  /\ stmts' = [stmts EXCEPT ![t] = @ + 1]
  /\ UNCHANGED << envVars, mapHolder, mapPoisoned, gil, globals, seq, wu >>

\* ---------------------------------------------------------- Valve::actuate

\* mappings.iter().find(|mapping| mapping.text_id == self.name): the index of
\* the first entry with that name, 0 when there is none.
RECURSIVE FindFrom(_, _, _)
FindFrom(tbl, name, i) ==
  IF i > Len(tbl) THEN 0
  ELSE IF tbl[i].text_id = name THEN i
  ELSE FindFrom(tbl, name, i + 1)

\* A lookup that falls back to the first entry when the name is not found.
Find_OrFirst(tbl, name) ==
  IF FindFrom(tbl, name, 1) = 0 /\ Len(tbl) > 0 THEN 1 ELSE FindFrom(tbl, name, 1)

Find(tbl, name) == FindFrom(tbl, name, 1)

\* A missing polarity read as normally open.
NormallyClosed_DefaultOpen(mapping) ==
  IF mapping.normally_closed # <<>> THEN mapping.normally_closed[1] ELSE FALSE

\* match mapping.normally_closed { Some(nc) => nc, None => true }
NormallyClosed(mapping) ==
  IF mapping.normally_closed # <<>> THEN mapping.normally_closed[1] ELSE TRUE

\* A polarity computed the other way round.
Powered_Inverted(normally_closed, open) == normally_closed # open

\* powered: normally_closed == open
Powered(normally_closed, open) == normally_closed = open

\* What to_socket_addrs can return for "<board_id>.local:8378".
Ipv4(board, k) == [family |-> "v4", host |-> board, k |-> k]

Ipv6(board) == [family |-> "v6", host |-> board, k |-> 1]

ResolveResults(board) ==
  { [ok |-> FALSE, addrs |-> <<>>],
    [ok |-> TRUE, addrs |-> <<>>],
    [ok |-> TRUE, addrs |-> << Ipv6(board) >>],
    [ok |-> TRUE, addrs |-> << Ipv4(board, 1) >>],
    [ok |-> TRUE, addrs |-> << Ipv6(board), Ipv4(board, 2), Ipv4(board, 1) >>] }

\* .ok().and_then(|mut addresses| addresses.find(SocketAddr::is_ipv4))
RECURSIVE FirstIpv4From(_, _)
FirstIpv4From(addrs, i) ==
  IF i > Len(addrs) THEN <<>>
  ELSE IF addrs[i].family = "v4" THEN << addrs[i] >>
  ELSE FirstIpv4From(addrs, i + 1)

\* A resolution that takes the first address of any family.
ResolveAddress_AnyFamily(r) ==
  IF r.ok /\ r.addrs # <<>> THEN << r.addrs[1] >> ELSE <<>>

ResolveAddress(r) == IF r.ok THEN FirstIpv4From(r.addrs, 1) ELSE <<>>

\* `name.open()` / `name.close()` in a script, name bound to a Valve:
\* actuate(open) up to MAPPINGS.get().
StmtActuate(t, n, open) ==
  /\ CanStart(t)
  /\ globals[n] = "Valve"
  /\ stmts' = [stmts EXCEPT ![t] = @ + 1]
  /\ IF MAPPINGS = "unset"
       THEN /\ call' = [call EXCEPT ![t] =
                 [NoCall EXCEPT !.op = "actuate", !.name = n, !.open = open,
                                !.done = TRUE, !.outcome = "not_initialized",
                                !.via = "default", !.handler = DEVICE_HANDLER]]
            /\ UNCHANGED << pc, gil >>
       ELSE /\ call' = [call EXCEPT ![t] =
                 [NoCall EXCEPT !.op = "actuate", !.name = n, !.open = open,
                                !.via = "default", !.handler = DEVICE_HANDLER]]
            /\ gil' = t
            /\ pc' = [pc EXCEPT ![t] = "act_lock"]
  /\ UNCHANGED << envVars, mapHolder, mapPoisoned, globals, seq, runState,
                  ret, wu >>

\* actuate(): mappings.lock()
ActLock(t) ==
  /\ pc[t] = "act_lock"
  /\ mapHolder = "none"
  /\ IF mapPoisoned
       THEN /\ call' = [call EXCEPT ![t].done = TRUE, ![t].outcome = "lock_poisoned",
                                    ![t].known = HasEntry(mappings, call[t].name)]
            /\ pc' = [pc EXCEPT ![t] = "script"]
            /\ gil' = "none"
            /\ UNCHANGED mapHolder
       ELSE /\ mapHolder' = t
            /\ call' = [call EXCEPT ![t].known = HasEntry(mappings, call[t].name)]
            /\ pc' = [pc EXCEPT ![t] = "act_lookup"]
            /\ UNCHANGED gil
  /\ UNCHANGED << envVars, mapPoisoned, globals, seq, runState, ret, stmts, wu >>

\* A handle that resolves in the table as first loaded.
LookupTable_Initial(current) == TableA

\* The table actuate searches: the Vec behind its guard, as it is now.
LookupTable(current) == current

\* An actuate that lets go of the table once it has found its entry.
GuardAfterLookup_Dropped(holder) == "none"

\* The guard `mappings` of actuate lives to the end of the function: the
\* lookup leaves it with its holder.
GuardAfterLookup(holder) == holder

\* actuate(): SAM_SOCKET.get_or_init(bind(..).unwrap()), the lookup, the
\* polarity and the message.
ActLookup(t) ==
  /\ pc[t] = "act_lookup"
  /\ \E bindOk \in BOOLEAN :
       LET tbl == LookupTable(mappings)
           i == Find(tbl, call[t].name) IN
       IF SAM_SOCKET = "unset" /\ ~bindOk
         THEN \* unwrap() panics: the guard is dropped while unwinding, which
              \* poisons the mutex; the script sees a PanicException.
              /\ mapPoisoned' = TRUE
              /\ mapHolder' = "none"
              /\ gil' = "none"
              /\ call' = [call EXCEPT ![t].done = TRUE, ![t].outcome = "panic"]
              /\ ScriptFails(t)
              /\ UNCHANGED SAM_SOCKET
         ELSE /\ SAM_SOCKET' = "bound"
              /\ UNCHANGED << mapPoisoned, runState, ret >>
              /\ IF i = 0
                   THEN /\ call' = [call EXCEPT ![t].done = TRUE,
                                                ![t].outcome = "unknown_device"]
                        /\ mapHolder' = "none"
                        /\ gil' = "none"
                        /\ pc' = [pc EXCEPT ![t] = "script"]
                   ELSE /\ call' = [call EXCEPT
                                   ![t].idx = i,
                                   ![t].nc = tbl[i].normally_closed,
                                   ![t].message =
                                     << SamControlMessage(tbl[i].channel,
                                          Powered(NormallyClosed(tbl[i]),
                                                  call[t].open)) >>]
                        /\ pc' = [pc EXCEPT ![t] = "act_send"]
                        /\ mapHolder' = GuardAfterLookup(mapHolder)
                        /\ UNCHANGED gil
  /\ UNCHANGED << MAPPINGS, mappings, DEVICE_HANDLER, VEHICLE_STATE, globals,
                  seq, stmts, wu >>

\* An actuate that records the commanded state in the store right away.
StoreAfterActuate_Optimistic(vs, name, open) ==
  IF vs = <<>> THEN vs
  ELSE << [vs[1] EXCEPT !.valve_states[name] =
             << IF open THEN "CommandedOpen" ELSE "CommandedClosed" >>] >>

\* An actuate that stamps the valve's update time and nothing else.
StoreAfterActuate_StampOnly(vs, name, open) ==
  IF vs = <<>> THEN vs
  ELSE << [vs[1] EXCEPT !.update_times[name] = << 1 >>] >>

\* The Vehicle State Store once actuate has returned: actuate never writes
\* it; valve states change only when the listener stores an acknowledgment.
StoreAfterActuate(vs, name, open) == vs

\* actuate(): address resolution, serialization and send_to; the guard on the
\* Mapping Table is dropped when actuate returns.
ActSend(t) ==
  /\ pc[t] = "act_send"
  /\ LET mapping == mappings[call[t].idx]
         message == call[t].message[1]
     IN \E r \in ResolveResults(mapping.board_id), serOk \in BOOLEAN, sendOk \in BOOLEAN :
          LET address == ResolveAddress(r) IN
          call' = [call EXCEPT
                     ![t].done = TRUE,
                     ![t].outcome = IF address = <<>> THEN "no_address"
                                    ELSE IF ~serOk THEN "serialize_failed"
                                    ELSE IF ~sendOk THEN "send_failed"
                                    ELSE "sent",
                     ![t].msgs = IF address # <<>> /\ serOk /\ sendOk
                                   THEN << [to |-> address[1], message |-> message] >>
                                   ELSE <<>>]
  /\ VEHICLE_STATE' = StoreAfterActuate(VEHICLE_STATE, call[t].name, call[t].open)
  /\ mapHolder' = "none"
  /\ gil' = "none"
  /\ pc' = [pc EXCEPT ![t] = "script"]
  /\ UNCHANGED << MAPPINGS, mappings, SAM_SOCKET, DEVICE_HANDLER, mapPoisoned,
                  globals, seq, runState, ret, stmts, wu >>

\* -------------------------------------------------------- wait primitives

\* wait_for(duration): thread::sleep, called from the script without
\* releasing the interpreter lock.
StmtWaitFor(t) ==
  /\ CanStart(t)
  /\ gil' = t
  /\ pc' = [pc EXCEPT ![t] = "sleep"]
  /\ stmts' = [stmts EXCEPT ![t] = @ + 1]
  /\ call' = [call EXCEPT ![t] = [NoCall EXCEPT !.op = "wait_for"]]
  /\ UNCHANGED << envVars, mapHolder, mapPoisoned, globals, seq, runState, ret, wu >>

\* wait_for returns.
Wake(t) ==
  /\ pc[t] = "sleep"
  /\ gil' = "none"
  /\ pc' = [pc EXCEPT ![t] = "script"]
  /\ call' = [call EXCEPT ![t].done = TRUE, ![t].outcome = "ok"]
  /\ UNCHANGED << envVars, mapHolder, mapPoisoned, globals, seq, runState, ret,
                  stmts, wu >>

\* A deadline test that gives up one poll interval early.
BeforeDeadline_Early(w) == w.now + 1 < w.end

\* Instant::now() < end_time
BeforeDeadline(w) == w.now < w.end

\* wait_until(condition, timeout, poll_interval) up to the loop: timeout is
\* <<>> (absent) or <<k>>, k poll intervals. end_time = Instant::now() + timeout
\* overflows for Duration::MAX and panics.
StmtWaitUntil(t, timeout) ==
  /\ CanStart(t)
  /\ stmts' = [stmts EXCEPT ![t] = @ + 1]
  /\ IF timeout = <<>>
       THEN /\ call' = [call EXCEPT ![t] =
                 [NoCall EXCEPT !.op = "wait_until", !.value = timeout,
                                !.done = TRUE, !.outcome = "panic"]]
            /\ ScriptFails(t)
            /\ UNCHANGED << gil, wu >>
       ELSE /\ call' = [call EXCEPT ![t] =
                 [NoCall EXCEPT !.op = "wait_until", !.value = timeout]]
            /\ wu' = [wu EXCEPT ![t] = [end |-> timeout[1], now |-> 0]]
            /\ gil' = t
            /\ pc' = [pc EXCEPT ![t] = "wu_poll"]
            /\ UNCHANGED << runState, ret >>
  /\ UNCHANGED << envVars, mapHolder, mapPoisoned, globals, seq >>

\* One evaluation of the loop condition:
\* !condition.call0()?.is_true()? && Instant::now() < end_time
WuPoll(t) ==
  /\ pc[t] = "wu_poll"
  /\ \E c \in {"true", "false", "raise"} :
       IF c = "raise"
         THEN /\ call' = [call EXCEPT ![t].done = TRUE, ![t].outcome = "error"]
              /\ ScriptFails(t)
              /\ gil' = "none"
              /\ wu' = [wu EXCEPT ![t] = NoWait]
         ELSE IF c = "false" /\ BeforeDeadline(wu[t])
           THEN /\ pc' = [pc EXCEPT ![t] = "wu_sleep"]
                /\ UNCHANGED << call, gil, wu, runState, ret >>
           ELSE /\ call' = [call EXCEPT ![t].done = TRUE,
                              ![t].outcome = IF c = "true" THEN "ok" ELSE "timeout"]
                /\ pc' = [pc EXCEPT ![t] = "script"]
                /\ gil' = "none"
                /\ wu' = [wu EXCEPT ![t] = NoWait]
                /\ UNCHANGED << runState, ret >>
  /\ UNCHANGED << envVars, mapHolder, mapPoisoned, globals, seq, stmts >>

\* thread::sleep(interval) in the loop body returns, one interval later.
WuWake(t) ==
  /\ pc[t] = "wu_sleep"
  /\ wu' = [wu EXCEPT ![t].now = @ + 1]
  /\ pc' = [pc EXCEPT ![t] = "wu_poll"]
  /\ UNCHANGED << envVars, mapHolder, mapPoisoned, gil, globals, seq, runState,
                  ret, stmts, call >>

\* ------------------------------------------------------ the script's end

\* The script raises an error of its own.
StmtRaise(t) ==
  /\ pc[t] = "script"
  /\ gil = "none"
  /\ ScriptFails(t)
  /\ UNCHANGED << envVars, mapHolder, mapPoisoned, gil, globals, seq, stmts,
                  call, wu >>

\* The script ends: py.run returns Ok and run() returns.
StmtEnd(t) ==
  /\ pc[t] = "script"
  /\ gil = "none"
  /\ pc' = [pc EXCEPT ![t] = "returned"]
  /\ runState' = [runState EXCEPT ![t] = "Completed"]
  /\ ret' = [ret EXCEPT ![t] = "unit"]
  /\ UNCHANGED << envVars, mapHolder, mapPoisoned, gil, globals, seq, stmts,
                  call, wu >>

\* ------------------------------------------------------------ specification

\* Steps of thread t running scripts named in `names`, with wait_until
\* timeouts drawn from `timeouts`.
RunSteps(t, names) ==
  \/ \E name \in names : Run(t, name)
  \/ RunLock(t)
  \/ RunGil(t)
  \/ RunBind(t)
  \/ StmtRaise(t)
  \/ StmtEnd(t)

ValveSteps(t) ==
  \/ \E n \in Names, open \in BOOLEAN : StmtActuate(t, n, open)
  \/ ActLock(t)
  \/ ActLookup(t)
  \/ ActSend(t)

WaitSteps(t, timeouts) ==
  \/ StmtWaitFor(t)
  \/ Wake(t)
  \/ \E timeout \in timeouts : StmtWaitUntil(t, timeout)
  \/ WuPoll(t)
  \/ WuWake(t)

Timeouts == {<<>>} \cup {<<k>> : k \in 1..MaxTimeout}

\* One script thread, with the embedder's calls and the telemetry listener.
Next ==
  \/ \E a \in Arcs, tbl \in Tables : initialize(a, tbl)
  \/ \E h \in Handlers : set_device_handler(h)
  \/ \E tbl \in Tables : SetMappings(tbl)
  \/ InitVehicleState
  \/ \E n \in {"sen1"}, m \in Readings, ts \in Timestamps : UpdateSensor(n, m, ts)
  \/ \E n \in {"vlv1"}, v \in ValveStates, ts \in Timestamps : UpdateValve(n, v, ts)
  \/ RunSteps("t1", SequenceNames)
  \/ \E n \in Names : StmtRead("t1", n)
  \/ \E n \in Names, op \in CompareOps, other \in Others :
       StmtCompare("t1", n, op, other)
  \/ ValveSteps("t1")
  \/ WaitSteps("t1", Timeouts)

Spec == Init /\ [][Next]_vars

\* Two script threads running at once, with table reloads.
NextConc ==
  \/ \E tbl \in ConcTables : initialize("m1", tbl)
  \/ \E tbl \in ConcTables : SetMappings(tbl)
  \/ \E t \in Threads :
       \/ RunSteps(t, {"seq1"})
       \/ \E n \in Names : StmtRead(t, n)
       \/ ValveSteps(t)
       \/ WaitSteps(t, {<<1>>})

SpecConc == Init /\ [][NextConc]_vars

\* ----------------------------------------------------------------- claims

ActPcs == {"act_lock", "act_lookup", "act_send"}

SuspendedPcs == {"sleep", "wu_sleep"}

\* Thread t takes a step of Valve::actuate.
ActuateStep(t) ==
  \/ pc[t] \in ActPcs /\ pc'[t] # pc[t]
  \/ pc[t] = "script" /\ stmts'[t] # stmts[t] /\ call'[t].op = "actuate"

\* Thread t performs a Sensor read.
ReadStep(t) ==
  pc[t] = "script" /\ stmts'[t] # stmts[t] /\ call'[t].op = "read"

C2_ActuateLeavesStore ==
  [][\A t \in Threads : ActuateStep(t) => VEHICLE_STATE' = VEHICLE_STATE]_vars

\* C2 witness: a message was sent while the store holds a state for the valve.
C2_Witness ==
  \E t \in Threads :
    /\ call[t].op = "actuate" /\ call[t].outcome = "sent"
    /\ VEHICLE_STATE # <<>>
    /\ VEHICLE_STATE[1].valve_states[call[t].name] # <<>>

\* C3: an open()/close() on a name that has no entry in the Mapping Table when
\* the call looks it up ends in a failure and transmits nothing.
C3_UnknownNameSendsNothing ==
  \A t \in Threads :
    (call[t].op = "actuate" /\ call[t].done /\ ~call[t].known) =>
      /\ call[t].msgs = <<>>
      /\ call[t].outcome \in {"not_initialized", "lock_poisoned", "panic",
                              "unknown_device"}

\* C3 witness: a call on an unmapped name reached the lookup and failed there,
\* with the table holding other entries.
C3_Witness ==
  \E t \in Threads :
    /\ call[t].op = "actuate" /\ call[t].outcome = "unknown_device"
    /\ ~call[t].known
    /\ mappings # <<>>

\* C4: a sequence named "abort" given to run() never reaches Running (nor an
\* end of execution).
C4_AbortNeverRuns ==
  \A t \in Threads :
    seq[t] = "abort" => runState[t] \notin {"Running", "Completed", "Failed"}

\* C5: a thread whose script is Running holds the Mapping Table lock only
\* inside a Valve call of its own, never while it executes other statements or
\* is suspended in wait_for / wait_until, and run() has released the lock on
\* every path by the time it returns.
C5_ScriptRunsWithoutTableLock ==
  \A t \in Threads :
    /\ pc[t] \in {"script", "sleep", "wu_poll", "wu_sleep", "act_lock", "returned"}
         => mapHolder # t
    /\ (runState[t] = "Running" /\ mapHolder = t) => pc[t] \in {"act_lookup", "act_send"}

\* C5 witness: a script is suspended between two polls of wait_until.
C5_Witness ==
  \E t \in Threads : pc[t] = "wu_sleep" /\ runState[t] = "Running"

\* A step a Running script can take when the interpreter lets it run.
ScriptStep(u) ==
  \/ StmtWaitFor(u)
  \/ \E n \in Names, open \in BOOLEAN : StmtActuate(u, n, open)
  \/ StmtRaise(u)
  \/ StmtEnd(u)

\* C6: while one script is suspended in wait_for or between two polls of
\* wait_until, another script that is Running can take its next step.
C6_WaitSuspendsOnlyCaller ==
  \A t \in Threads, u \in Threads :
    (t # u /\ pc[t] \in SuspendedPcs /\ pc[u] = "script") => ENABLED ScriptStep(u)

\* C7: a Sensor read or Valve open()/close() made after set_device_handler(h)
\* is delegated to h and takes no default path (no store lookup, no message).
C7_HandlerReceivesCalls ==
  \A t \in Threads :
    (call[t].op \in {"read", "actuate"} /\ call[t].done /\ call[t].handler # "None") =>
      /\ call[t].via = "handler"
      /\ call[t].msgs = <<>>

\* get_sensor(name): what the Vehicle State Store holds for the name.
StoreReading(n) ==
  IF VEHICLE_STATE = <<>> THEN <<>> ELSE VEHICLE_STATE[1].sensor_readings[n]

C10_CallerCanTellFailure ==
  \A t \in Threads, u \in Threads :
    (/\ pc[t] = "returned" /\ runState[t] = "Failed"
     /\ pc[u] = "returned" /\ runState[u] = "Completed") => ret[t] # ret[u]

\* Thread t's wait_until returns to the script because the time is up.
TimeoutStep(t) ==
  pc[t] = "wu_poll" /\ call'[t].op = "wait_until" /\ call'[t].outcome = "timeout"

\* C11: a wait_until with a finite timeout whose condition stays false
\* returns normally, at the first poll at which the timeout has elapsed: not
\* while time is left, and a poll at or after the deadline never sleeps again.
C11_TimeoutReturnsAtDeadline ==
  [][\A t \in Threads :
       /\ TimeoutStep(t) =>
            /\ wu[t].now >= call[t].value[1]
            /\ pc'[t] = "script"
            /\ runState'[t] = "Running"
       /\ (pc[t] = "wu_poll" /\ wu[t].now >= call[t].value[1]) => pc'[t] # "wu_sleep"
       /\ (pc[t] = "wu_poll" /\ pc'[t] = "script" /\ wu[t].now < call[t].value[1])
            => call'[t].outcome = "ok"]_vars

\* C11 witness: a wait_until with a timeout of two poll intervals timed out.
C11_Witness ==
  \E t \in Threads :
    call[t].op = "wait_until" /\ call[t].outcome = "timeout" /\ call[t].value = <<2>>

\* C12: a wait_until called without a timeout never fails and never returns
\* for lack of time: it ends only when its condition is true.
C12_NoTimeoutWaitsForCondition ==
  \A t \in Threads :
    (call[t].op = "wait_until" /\ call[t].value = <<>> /\ call[t].done) =>
      call[t].outcome = "ok"

\* Thread t evaluates a comparison on a Sensor handle.
CompareStep(t) ==
  pc[t] = "script" /\ stmts'[t] # stmts[t] /\ call'[t].op = "compare"

\* C13: every comparison on a Sensor handle compares against the reading the
\* store holds under the handle's name at the time of that comparison, and
\* its result is the result for that reading.
C13_CompareReadsStoreAnew ==
  [][\A t \in Threads :
       CompareStep(t) =>
         /\ call'[t].value = StoreReading(call'[t].name)
         /\ call'[t].outcome =
              RichCompare(call'[t].other, StoreReading(call'[t].name), call'[t].cmp)]_vars

\* C13 witness: the second statement of a script compared a handle with a
\* stored reading.
C13_Witness ==
  \E t \in Threads :
    /\ call[t].op = "compare" /\ stmts[t] = 2
    /\ call[t].value \in {<<m>> : m \in Readings}

\* Thread t's run() ends its binding pass.
BindStep(t) == pc[t] = "run_bind" /\ pc'[t] # "run_bind"

\* C14: when binding succeeds every entry of the table has its text_id bound
\* to a Valve handle if its channel type is ValveCurrent and to a Sensor
\* handle otherwise, and only then does the script start; when the import or
\* a binding fails the run ends without executing the script.
C14_BindingMatchesEveryEntry ==
  [][\A t \in Threads :
       BindStep(t) =>
         IF pc'[t] = "script"
           THEN \A i \in DOMAIN mappings :
                  globals'[mappings[i].text_id] = HandleClass(mappings[i])
           ELSE pc'[t] = "returned" /\ runState'[t] = "Aborted"]_vars

\* C20: the table the engine uses never holds two entries with one text_id.
C20_TableHasNoDuplicates ==
  MAPPINGS # "unset" =>
    \A i, j \in DOMAIN mappings :
      i # j => mappings[i].text_id # mappings[j].text_id

\* C15: a run that starts its script sees no name but those of the entries
\* of the table it bound from.
C15_RunSeesOnlyItsTable ==
  [][\A t \in Threads :
       (BindStep(t) /\ pc'[t] = "script") =>
         \A n \in Names : globals'[n] # "undef" => HasEntry(mappings, n)]_vars

\* C16: when the mapping found has normally_closed unset, Valve.open()/close()
\* goes on as for a normally closed valve: the message is powered exactly
\* when the valve is to open, the call fails only if the transport does, and
\* what it transmits is that message.
C16_UnsetPolarityActsAsClosed ==
  \A t \in Threads :
    (call[t].op = "actuate" /\ call[t].idx # 0 /\ call[t].nc = <<>>) =>
      /\ call[t].message # <<>>
      /\ call[t].message[1].powered = call[t].open
      /\ call[t].outcome \in
           {"none", "sent", "no_address", "serialize_failed", "send_failed"}
      /\ call[t].outcome = "sent" =>
           /\ call[t].msgs # <<>>
           /\ call[t].msgs[1].message = call[t].message[1]

\* C16 witness: a close() on a valve without polarity was transmitted.
C16_Witness ==
  \E t \in Threads :
    /\ call[t].op = "actuate" /\ call[t].idx # 0 /\ call[t].nc = <<>>
    /\ ~call[t].open /\ call[t].outcome = "sent"

\* C17: no Valve.open()/close() ends in a panic, and the Mapping Table lock
\* is never poisoned.
C17_ActuationNeverPanics ==
  /\ ~mapPoisoned
  /\ \A t \in Threads : call[t].op = "actuate" => call[t].outcome # "panic"

\* Thread t's run() returns at once, having bound and executed nothing.
RunRefused(t) ==
  /\ pc'[t] = "returned" /\ runState'[t] = "Aborted" /\ ret'[t] = "unit"
  /\ globals' = globals /\ stmts'[t] = stmts[t]
  /\ mapHolder' = mapHolder /\ mapPoisoned' = mapPoisoned

C19_OneTableVersionPerOperation ==
  \A t \in Threads :
    /\ pc[t] \in {"run_gil", "run_bind", "act_lookup", "act_send"} => mapHolder = t
    /\ pc[t] = "act_send" =>
         /\ call[t].idx \in DOMAIN mappings
         /\ mappings[call[t].idx].text_id = call[t].name
         /\ mappings[call[t].idx].normally_closed = call[t].nc
         /\ mappings[call[t].idx].channel = call[t].message[1].channel
    /\ call[t].msgs # <<>> =>
         \E tbl \in ConcTables : \E i \in DOMAIN tbl :
           /\ tbl[i].text_id = call[t].name
           /\ tbl[i].board_id = call[t].msgs[1].to.host
           /\ tbl[i].channel = call[t].msgs[1].message.channel
           /\ tbl[i].normally_closed = call[t].nc

\* C19 witness: a thread is between its lookup and its send while the other
\* thread waits for the table lock.
C19_Witness ==
  \E t, u \in Threads :
    /\ u # t
    /\ pc[t] = "act_send"
    /\ pc[u] \in {"run_lock", "act_lock"}

\* C21: update_times[k] is defined exactly when one, and only one, of
\* valve_states[k] and sensor_readings[k] is defined, in every state the
\* engine's operations reach; a new VehicleState has all three maps empty.
C21_UpdateTimesMatchStates ==
  /\ \A k \in Names :
       /\ NewVehicleState.valve_states[k] = <<>>
       /\ NewVehicleState.sensor_readings[k] = <<>>
       /\ NewVehicleState.update_times[k] = <<>>
  /\ VEHICLE_STATE # <<>> =>
       \A k \in Names :
         (VEHICLE_STATE[1].update_times[k] # <<>>) <=>
           ((VEHICLE_STATE[1].valve_states[k] # <<>>) #
            (VEHICLE_STATE[1].sensor_readings[k] # <<>>))

\* C21 witness: a script that actuated a valve has completed over a store
\* that holds a reading with its update time and a name with no entry at all.
C21_Witness ==
  /\ VEHICLE_STATE # <<>>
  /\ VEHICLE_STATE[1].update_times["sen1"] # <<>>
  /\ VEHICLE_STATE[1].update_times["vlv1"] = <<>>
  /\ \E t \in Threads :
       call[t].op = "actuate" /\ call[t].done /\ runState[t] = "Completed"

\* C22: no thread waits for the Mapping Table lock with the interpreter lock
\* in hand (in Valve.actuate) while another holds the Mapping Table lock and
\* waits for the interpreter lock (in run(), before binding).
C22_NoLockOrderDeadlock ==
  ~ \E t, u \in Threads :
      /\ t # u
      /\ pc[t] = "act_lock" /\ gil = t
      /\ pc[u] = "run_gil" /\ mapHolder = u

\* C23: Valve.open()/close() has released the Mapping Table lock when address
\* resolution and transmission start.
C23_LockFreeDuringSend ==
  \A t \in Threads : pc[t] = "act_send" => mapHolder # t

\* C24: `sensor OP x` evaluates to `read() OP x`, the reading on the left:
\* the result of a comparison is that of x compared with the reading under
\* the mirrored operator (a < b is b > a, a <= b is b >= a).
C24_SensorIsLeftOperand ==
  [][\A t \in Threads :
       CompareStep(t) =>
         LET op == call'[t].cmp
             mirrored == CASE op = "Lt" -> "Gt"
                           [] op = "Le" -> "Ge"
                           [] op = "Gt" -> "Lt"
                           [] op = "Ge" -> "Le"
                           [] OTHER -> op
         IN call'[t].outcome =
              RichCompare(call'[t].other, StoreReading(call'[t].name), mirrored)]_vars

\* Thread t's actuate finishes its lookup without a panic.
LookupStep(t) ==
  pc[t] = "act_lookup" /\ pc'[t] # "act_lookup" /\ call'[t].outcome # "panic"

\* C25: open()/close() resolves the handle's name in the Mapping Table as it
\* is when the call looks it up: the message has the channel and polarity,
\* and is sent to the board, of the first entry now under that name, and the
\* call fails as unknown device, sending nothing, when there is none now.
C25_ValveResolvesAtCallTime ==
  [][\A t \in Threads :
       /\ LookupStep(t) =>
            IF HasEntry(mappings, call[t].name)
              THEN LET i == CHOOSE j \in DOMAIN mappings :
                              /\ mappings[j].text_id = call[t].name
                              /\ \A k \in 1..(j - 1) : mappings[k].text_id # call[t].name
                   IN /\ pc'[t] = "act_send"
                      /\ call'[t].idx = i
                      /\ call'[t].nc = mappings[i].normally_closed
                      /\ call'[t].message[1].channel = mappings[i].channel
                      /\ call'[t].message[1].powered =
                           ((IF mappings[i].normally_closed = <<FALSE>>
                               THEN FALSE ELSE TRUE) = call[t].open)
              ELSE /\ call'[t].outcome = "unknown_device"
                   /\ call'[t].msgs = <<>>
                   /\ pc'[t] = "script"
       /\ (pc[t] = "act_send" /\ call'[t].msgs # <<>>) =>
            /\ call'[t].msgs[1].to.host = mappings[call[t].idx].board_id
            /\ call'[t].msgs[1].message = call[t].message[1]]_vars

\* C25 witness: the one run bound sen1, so from a table that is not TableB,
\* and a later call was sent to the board and channel TableB gives vlv1.
C25_Witness ==
  \E t \in Threads :
    /\ globals["sen1"] = "Sensor"
    /\ call[t].op = "actuate" /\ call[t].outcome = "sent"
    /\ call[t].msgs[1].to.host = "sam2"
    /\ call[t].msgs[1].message.channel = 5

\* Thread t's actuate ends its resolution and transmission.
SendStep(t) == pc[t] = "act_send" /\ pc'[t] # "act_send"

\* C26: a Valve.open()/close() transmits at most one message, only in its
\* send, carrying the channel of the mapping found, to the first IPv4 address
\* of a resolution of the mapping's board; when the resolution fails or has
\* no IPv4 address nothing is sent and the call reports the failure.
C26_OneMessageToFirstIpv4 ==
  [][\A t \in Threads :
       /\ call'[t].msgs # call[t].msgs =>
            (SendStep(t) \/ (call'[t].msgs = <<>> /\ stmts'[t] # stmts[t]))
       /\ SendStep(t) =>
            LET mapping == mappings[call[t].idx] IN
            /\ Len(call'[t].msgs) <= 1
            /\ call'[t].msgs # <<>> =>
                 /\ call'[t].outcome = "sent"
                 /\ call'[t].msgs[1].message.channel = mapping.channel
                 /\ call'[t].msgs[1].to.family = "v4"
                 /\ call'[t].msgs[1].to.host = mapping.board_id
            /\ \E r \in ResolveResults(mapping.board_id) :
                 LET v4 == {i \in DOMAIN r.addrs : r.addrs[i].family = "v4"} IN
                 IF ~r.ok \/ v4 = {}
                   THEN call'[t].msgs = <<>> /\ call'[t].outcome = "no_address"
                   ELSE \/ /\ call'[t].msgs = <<>>
                           /\ call'[t].outcome \in {"serialize_failed", "send_failed"}
                        \/ /\ call'[t].msgs # <<>>
                           /\ call'[t].msgs[1].to =
                                r.addrs[CHOOSE i \in v4 : \A j \in v4 : i <= j]]_vars

\* C26 witness: a message went to the IPv4 address that came after an IPv6
\* address and before another IPv4 address in the resolution.
C26_Witness ==
  \E t \in Threads :
    /\ call[t].op = "actuate" /\ call[t].outcome = "sent"
    /\ Len(call[t].msgs) = 1
    /\ call[t].msgs[1].to = Ipv4(call[t].msgs[1].to.host, 2)

\* C27: once initialize has set the table object, no later initialize
\* replaces it: run() and Valve.actuate keep using it, and the table they
\* see changes only by a replacement of the contents behind its mutex, made
\* with the mutex free and leaving everything else as it is.
C27_InitializeTakesEffectOnce ==
  [][MAPPINGS # "unset" =>
       /\ MAPPINGS' = MAPPINGS
       /\ mappings' # mappings =>
            /\ mapHolder = "none" /\ mapHolder' = "none"
            /\ UNCHANGED << mapPoisoned, gil, SAM_SOCKET, DEVICE_HANDLER,
                            VEHICLE_STATE, globals, pc, seq, runState, ret,
                            stmts, call, wu >>]_vars

\* C27 witness: m2 was given first, and a script run later, with every
\* initialize(m1, ..) since then ignored, still transmitted through it.
C27_Witness ==
  /\ MAPPINGS = "m2"
  /\ \E t \in Threads :
       /\ call[t].op = "actuate" /\ call[t].outcome = "sent"
       /\ stmts[t] = 2

====
